---- MODULE Spec2Model ----
(***************************************************************************)
(* Monodrift: the per-frame vehicle simulation (Car.update), the collision *)
(* helper (Physics) and the session clock (GameState), driven by the frame *)
(* loop Game.animate; the leaderboard table and the clients submitting to  *)
(* it (LeaderboardService.submitScore).                                    *)
(*                                                                         *)
(* Numbers.  The program computes in IEEE doubles; the model computes in   *)
(* fixed point with three decimals: a real x is the integer x * 1000       *)
(* (speeds in mm/s, positions in mm, angles in mrad, times in ms, nitro in *)
(* 1/1000 percent, pending drift points in 1/1000 point).  Products are    *)
(* rescaled with a division that truncates toward zero.  Committed points  *)
(* and the total score are whole numbers, as Math.floor leaves them.       *)
(***************************************************************************)
EXTENDS Integers, Sequences, FiniteSets, TLC

VARIABLES
    car,        \* the Car object: a record of its fields
    gs,         \* the GameState object: score and session clock
    isRunning,  \* game.isRunning
    keys,       \* inputHandler.keys: the set of controls held down
    seg,        \* the player's place in the plan of control sets being played
    frame,      \* frames processed by Game.animate so far
    last,       \* what the last step did: its kind, dt, the car before it, events
    session,    \* sessions started so far (calls of Game.startGame)
    over,       \* the game-over hand-off: countdowns run out, leaderboard
                \* refreshes in flight, gameOver events dispatched
    table,      \* the rows of the leaderboard table
    clients,    \* the submitScore calls in progress, one per client
    fetcher,    \* LeaderboardService.initialize with its retry loop
    service,    \* the LeaderboardService of this page: topScores, isLoading and
                \* its fetchLeaderboard calls
    lastTime,   \* game.lastTime: the timestamp Game.animate kept, in ms
    clock       \* the timestamp of the display's latest callback, in ms

boardVars == <<table, clients, fetcher, service>>

timeVars == <<lastTime, clock>>

gameVars == <<car, gs, isRunning, keys, seg, frame, last, session, over, timeVars>>

vars == <<car, gs, isRunning, keys, seg, frame, last, session, over, table, clients,
         fetcher, service, lastTime, clock>>

----------------------------------------------------------------------------
(* Fixed-point arithmetic *)

ONE == 1000

Abs(x) == IF x < 0 THEN -x ELSE x
Min(a, b) == IF a < b THEN a ELSE b
Max(a, b) == IF a > b THEN a ELSE b
Sign(x) == IF x > 0 THEN 1 ELSE IF x < 0 THEN -1 ELSE 0

\* a / b truncated toward zero (b > 0)
Div(a, b) == IF a >= 0 THEN a \div b ELSE -((-a) \div b)

\* product of two fixed-point numbers
Mul(a, b) == Div(a * b, ONE)

\* Math.floor of a fixed-point number, as a whole number
Floor(x) == x \div ONE

RECURSIVE SqrtIter(_, _, _)
SqrtIter(n, res, bit) ==
    IF bit = 0 THEN res
    ELSE LET t == res + bit IN
         IF t <= 46340 /\ t * t <= n
           THEN SqrtIter(n, t, bit \div 2)
           ELSE SqrtIter(n, res, bit \div 2)

\* integer square root
ISqrt(n) == SqrtIter(n, 0, 32768)

\* Math.pow(x, 1.5) = x * sqrt(x)
Pow15(x) == Mul(x, ISqrt(x * ONE))

Pow5(y) == LET y2 == Mul(y, y) y4 == Mul(y2, y2) IN Mul(y4, y)

RECURSIVE RootIter(_, _, _)
RootIter(x, res, bit) ==
    IF bit = 0 THEN res
    ELSE LET t == res + bit IN
         IF Pow5(t) <= x
           THEN RootIter(x, t, bit \div 2)
           ELSE RootIter(x, res, bit \div 2)

\* Math.pow(x, 1.2) = x * x^(1/5), for 0 <= x < 1000.0
Pow12(x) == Mul(x, RootIter(x, 0, 2048))

\* Vector3.length() in the ground plane and in space
Len3(x, y, z) ==
    LET m == Max(Abs(x), Max(Abs(y), Abs(z))) IN
    IF m < 26000 THEN ISqrt(x * x + y * y + z * z)
    ELSE 10 * ISqrt(Div(x, 10) * Div(x, 10) + Div(y, 10) * Div(y, 10)
                    + Div(z, 10) * Div(z, 10))

PI == 3142
TWOPI == 6283
HALFPI == 1571

\* sine of an angle in [-pi/2, pi/2] (Taylor polynomial up to x^7)
SinCore(x) ==
    LET x2 == Mul(x, x)
        x3 == Mul(x2, x)
        x5 == Mul(x3, x2)
        x7 == Mul(x5, x2)
    IN  x - Div(x3, 6) + Div(x5, 120) - Div(x7, 5040)

\* Math.sin
Sin(a) ==
    LET r == a % TWOPI                                \* in [0, 2 pi)
        s == IF r > PI THEN r - TWOPI ELSE r          \* in (-pi, pi]
        t == IF s > HALFPI THEN PI - s
             ELSE IF s < -HALFPI THEN -PI - s ELSE s
        v == SinCore(t)
    IN  Max(-ONE, Min(ONE, v))

\* Math.cos
Cos(a) == Sin(a + HALFPI)

----------------------------------------------------------------------------
(* Car: configuration set by the constructor *)

maxSpeed == 25000
enginePower == 800
brakeForce == 100
collisionRadius == 800
nitroAmount == 100000
nitroBoostFactor == 6
nitroDepletionRate == 30
nitroRecoveryFromDrift == 4
driftInitiationSpeed == 5000
maxDriftDuration == 5000
driftPointsBase == 10
turnSpeed == 4000
spinThreshold == 4000
minSpinTime == 500
collisionRecoveryTime == 2000
initialPositionX == 20000
initialPositionZ == 20000
initialRotation == 0

\* the state the constructor leaves
NewCar ==
    [ posX |-> initialPositionX, posZ |-> initialPositionZ, rotY |-> initialRotation,
      velocity |-> 0, vvX |-> 0, vvY |-> 0, vvZ |-> 0,
      steeringAngle |-> 0,
      currentNitro |-> nitroAmount, isNitroActive |-> FALSE,
      isDrifting |-> FALSE, driftDuration |-> 0, driftIntensity |-> 0,
      activeDriftPoints |-> 0, driftPointsMultiplier |-> ONE, totalScore |-> 0,
      isCollided |-> FALSE, collisionTimer |-> 0,
      isSpinning |-> FALSE, spinTime |-> 0, spinScore |-> 0 ]

\* new THREE.Vector3(0, 0, -1) turned about the y axis by the heading
ForwardX(rot) == -Sin(rot)
ForwardZ(rot) == -Cos(rot)
\* new THREE.Vector3(1, 0, 0) turned about the y axis by the heading
RightX(rot) == Cos(rot)
RightZ(rot) == -Sin(rot)

Throttle(k) == "up" \in k       \* keys.arrowUp || keys.w
Brake(k) == "down" \in k        \* keys.arrowDown || keys.s

calculateAccelerationFactor(c) ==
    LET speedRatio == Div(Abs(c.velocity) * ONE, maxSpeed)
    IN  Div((ONE - Pow15(speedRatio)) * 5, 100)

calculateDragForce(c, dt) ==
    Mul(Div(Mul(Abs(c.velocity), Abs(c.velocity)) * 3, 10000), dt)

calculateRollingResistance(c, dt) ==
    Div(Mul(Abs(c.velocity), dt) * 15, 100000)

calculateSteeringFactor(c) ==
    LET speedRatio == Div(Abs(c.velocity) * ONE, maxSpeed) IN
    IF speedRatio < 200 THEN 500 + Div(speedRatio * 25, 10)
    ELSE IF speedRatio > 800 THEN ONE - Div((speedRatio - 800) * 5, 10)
    ELSE ONE

\* a restart that forgets the crash state
RestartKeepsCrash(c) ==
    [c EXCEPT !.posX = initialPositionX, !.posZ = initialPositionZ,
              !.rotY = initialRotation,
              !.velocity = 0, !.vvX = 0, !.vvY = 0, !.vvZ = 0,
              !.isDrifting = FALSE, !.steeringAngle = 0,
              !.driftDuration = 0, !.driftIntensity = 0,
              !.currentNitro = nitroAmount, !.isNitroActive = FALSE,
              !.activeDriftPoints = 0]

\* Car.restart
Restart(c) ==
    [c EXCEPT !.posX = initialPositionX, !.posZ = initialPositionZ,
              !.rotY = initialRotation,
              !.velocity = 0, !.vvX = 0, !.vvY = 0, !.vvZ = 0,
              !.isDrifting = FALSE, !.steeringAngle = 0,
              !.driftDuration = 0, !.driftIntensity = 0,
              !.currentNitro = nitroAmount, !.isNitroActive = FALSE,
              !.activeDriftPoints = 0,
              !.isCollided = FALSE, !.collisionTimer = 0]

\* Car.revive
Revive(c) ==
    [c EXCEPT !.posX = c.posX - Mul(ForwardX(c.rotY), 3000),
              !.posZ = c.posZ - Mul(ForwardZ(c.rotY), 3000),
              !.velocity = 0, !.vvX = 0, !.vvY = 0, !.vvZ = 0,
              !.isDrifting = FALSE,
              !.isCollided = FALSE, !.collisionTimer = 0,
              !.isNitroActive = FALSE]

\* Car.update, the crashed branch: only the recovery timer runs
UpdateCollided(c, dt) ==
    LET t == c.collisionTimer + dt IN
    IF t >= collisionRecoveryTime
      THEN Revive([c EXCEPT !.collisionTimer = t])
      ELSE [c EXCEPT !.collisionTimer = t]

\* nitro that engages without using up the charge
UpdateNitroFree(c, dt, k) ==
    IF "shift" \in k /\ c.currentNitro > 0 /\ c.velocity > 0
      THEN [c EXCEPT !.isNitroActive = TRUE]
      ELSE [c EXCEPT !.isNitroActive = FALSE]

\* Car.update, nitro activation with the shift key
UpdateNitro(c, dt, k) ==
    IF "shift" \in k /\ c.currentNitro > 0 /\ c.velocity > 0
      THEN [c EXCEPT !.isNitroActive = TRUE,
                     !.currentNitro = Max(0, c.currentNitro - nitroDepletionRate * dt)]
      ELSE [c EXCEPT !.isNitroActive = FALSE]

\* Car.update, throttle held
\* throttle that does not stop at 0 when the car is reversing
SpeedThrottleUnclamped(c, dt) ==
    IF c.velocity >= 0
      THEN LET force == Div(enginePower * calculateAccelerationFactor(c) * dt, ONE)
               engineForce == IF c.isNitroActive THEN force * nitroBoostFactor ELSE force
           IN  Min(c.velocity + engineForce,
                   IF c.isNitroActive THEN Div(maxSpeed * 14, 10) ELSE maxSpeed)
      ELSE c.velocity + Div(brakeForce * 5 * dt, 10)

SpeedThrottle(c, dt) ==
    IF c.velocity >= 0
      THEN LET force == Div(enginePower * calculateAccelerationFactor(c) * dt, ONE)
               engineForce == IF c.isNitroActive THEN force * nitroBoostFactor ELSE force
           IN  Min(c.velocity + engineForce,
                   IF c.isNitroActive THEN Div(maxSpeed * 14, 10) ELSE maxSpeed)
      ELSE Min(0, c.velocity + Div(brakeForce * 5 * dt, 10))

\* Car.update, brake / reverse held
SpeedBrake(c, dt) ==
    IF c.velocity > 0
      THEN LET force == brakeForce * dt
               driftBrakeReduction == IF c.isDrifting THEN 250 ELSE ONE
               speedFactor == Div(c.velocity * ONE, maxSpeed)
               progressiveFactor == 50 + Div(Mul(speedFactor, speedFactor) * 6, 10)
               effectiveBrakeForce == Mul(Mul(force, progressiveFactor), driftBrakeReduction)
               actualDeceleration == Min(Div(c.velocity * 5, 100), effectiveBrakeForce)
           IN  Max(0, c.velocity - actualDeceleration)
      ELSE IF c.velocity = 0 THEN -200
      ELSE LET reverseForce == Div(enginePower * 2 * dt, 10)
               reverseSpeedRatio == Div(Abs(c.velocity) * 3 * ONE, maxSpeed)
               reverseAcceleration == Mul(reverseForce, ONE - Pow12(reverseSpeedRatio))
           IN  Max(c.velocity - reverseAcceleration, -Div(maxSpeed, 3))

\* Car.update, no directional input: natural deceleration
SpeedCoast(c, dt) ==
    IF c.velocity > 0
      THEN LET drag == calculateDragForce(c, dt)
               rollingResistance == calculateRollingResistance(c, dt)
               driftBrakeReduction == IF c.isDrifting THEN 200 ELSE ONE
               engineBraking == Mul(Mul(Div(c.velocity * 55, 100), dt), driftBrakeReduction)
               speedRatio == Div(c.velocity * ONE, maxSpeed)
               progressiveFactor == 500 + Div(speedRatio, 2)
               totalDeceleration ==
                   Min(c.velocity, Mul(drag + rollingResistance + engineBraking,
                                       progressiveFactor))
           IN  c.velocity - totalDeceleration
      ELSE IF c.velocity < 0
      THEN LET drag == calculateDragForce(c, dt)
               rollingResistance == calculateRollingResistance(c, dt)
               totalDeceleration == Min(Abs(c.velocity), drag + rollingResistance)
           IN  c.velocity + totalDeceleration
      ELSE c.velocity

\* Car.update, the longitudinal speed model
UpdateSpeed(c, dt, k) ==
    [c EXCEPT !.velocity = IF Throttle(k) THEN SpeedThrottle(c, dt)
                           ELSE IF Brake(k) THEN SpeedBrake(c, dt)
                           ELSE SpeedCoast(c, dt)]

\* Car.update, steering input
UpdateSteering(c, k) ==
    [c EXCEPT !.steeringAngle = IF "left" \in k THEN calculateSteeringFactor(c)
                                ELSE IF "right" \in k THEN -calculateSteeringFactor(c)
                                ELSE 0]

\* drift detection that looks at the drift control only
UpdateDriftScoreAnySpeed(c, dt, k) ==
    LET wasDrifting == c.isDrifting
        nowDrifting == "space" \in k
    IN  IF nowDrifting
          THEN IF ~wasDrifting
                 THEN [car |-> [c EXCEPT !.isDrifting = TRUE, !.activeDriftPoints = 0,
                                         !.driftPointsMultiplier = ONE],
                       events |-> <<>>, accrued |-> 0]
                 ELSE LET speedFactor == Min(ONE, Div(c.velocity * ONE, maxSpeed))
                          multiplier == Min(5000, ONE + Div(c.driftDuration, 2))
                          pointsThisFrame ==
                              driftPointsBase * Mul(Mul(speedFactor, multiplier), dt)
                      IN  [car |-> [c EXCEPT !.isDrifting = TRUE,
                                             !.driftPointsMultiplier = multiplier,
                                             !.activeDriftPoints = @ + pointsThisFrame],
                           events |-> <<>>, accrued |-> pointsThisFrame]
          ELSE IF wasDrifting
                 THEN LET finalPoints == Floor(c.activeDriftPoints)
                          total == c.totalScore + finalPoints
                      IN  [car |-> [c EXCEPT !.isDrifting = FALSE,
                                             !.totalScore = total,
                                             !.currentNitro =
                                                 Min(100 * ONE,
                                                     @ + finalPoints * nitroRecoveryFromDrift * ONE),
                                             !.activeDriftPoints = 0],
                           events |-> << [points |-> finalPoints, total |-> total] >>,
                       accrued |-> 0]
                 ELSE [car |-> [c EXCEPT !.isDrifting = FALSE], events |-> <<>>, accrued |-> 0]

\* a drift commit whose nitro recovery is not clamped at 100
UpdateDriftScoreUnclamped(c, dt, k) ==
    LET wasDrifting == c.isDrifting
        nowDrifting == "space" \in k /\ Abs(c.velocity) > driftInitiationSpeed
    IN  IF nowDrifting
          THEN IF ~wasDrifting
                 THEN [car |-> [c EXCEPT !.isDrifting = TRUE, !.activeDriftPoints = 0,
                                         !.driftPointsMultiplier = ONE],
                       events |-> <<>>, accrued |-> 0]
                 ELSE LET speedFactor == Min(ONE, Div(c.velocity * ONE, maxSpeed))
                          multiplier == Min(5000, ONE + Div(c.driftDuration, 2))
                          pointsThisFrame ==
                              driftPointsBase * Mul(Mul(speedFactor, multiplier), dt)
                      IN  [car |-> [c EXCEPT !.isDrifting = TRUE,
                                             !.driftPointsMultiplier = multiplier,
                                             !.activeDriftPoints = @ + pointsThisFrame],
                           events |-> <<>>, accrued |-> pointsThisFrame]
          ELSE IF wasDrifting
                 THEN LET finalPoints == Floor(c.activeDriftPoints)
                          total == c.totalScore + finalPoints
                      IN  [car |-> [c EXCEPT !.isDrifting = FALSE,
                                             !.totalScore = total,
                                             !.currentNitro =
                                                 @ + finalPoints * nitroRecoveryFromDrift * ONE,
                                             !.activeDriftPoints = 0],
                           events |-> << [points |-> finalPoints, total |-> total] >>,
                       accrued |-> 0]
                 ELSE [car |-> [c EXCEPT !.isDrifting = FALSE], events |-> <<>>, accrued |-> 0]

\* Car.update, drift detection, drift scoring and nitro recovery.
\* The result carries the driftScore events dispatched (at most one) and the
\* points accrued to the bucket by this frame.
UpdateDriftScore(c, dt, k) ==
    LET wasDrifting == c.isDrifting
        nowDrifting == "space" \in k /\ Abs(c.velocity) > driftInitiationSpeed
    IN  IF nowDrifting
          THEN IF ~wasDrifting
                 THEN [car |-> [c EXCEPT !.isDrifting = TRUE, !.activeDriftPoints = 0,
                                         !.driftPointsMultiplier = ONE],
                       events |-> <<>>, accrued |-> 0]
                 ELSE LET speedFactor == Min(ONE, Div(c.velocity * ONE, maxSpeed))
                          multiplier == Min(5000, ONE + Div(c.driftDuration, 2))
                          pointsThisFrame ==
                              driftPointsBase * Mul(Mul(speedFactor, multiplier), dt)
                      IN  [car |-> [c EXCEPT !.isDrifting = TRUE,
                                             !.driftPointsMultiplier = multiplier,
                                             !.activeDriftPoints = @ + pointsThisFrame],
                           events |-> <<>>, accrued |-> pointsThisFrame]
          ELSE IF wasDrifting
                 THEN LET finalPoints == Floor(c.activeDriftPoints)
                          total == c.totalScore + finalPoints
                      IN  [car |-> [c EXCEPT !.isDrifting = FALSE,
                                             !.totalScore = total,
                                             !.currentNitro =
                                                 Min(100 * ONE,
                                                     @ + finalPoints * nitroRecoveryFromDrift * ONE),
                                             !.activeDriftPoints = 0],
                           events |-> << [points |-> finalPoints, total |-> total] >>,
                       accrued |-> 0]
                 ELSE [car |-> [c EXCEPT !.isDrifting = FALSE], events |-> <<>>, accrued |-> 0]

\* Car.update, "maintain forward velocity" while accelerating in a drift
UpdateDriftThrottle(c, k) ==
    IF Throttle(k) /\ c.isDrifting /\ c.velocity > 0
      THEN LET minVelocity == Max(Mul(c.velocity, 950), driftInitiationSpeed)
           IN  [c EXCEPT !.velocity = Max(c.velocity, minVelocity)]
      ELSE c

\* drift timing without the cap at maxDriftDuration
UpdateDriftTimingUncapped(c, dt, wasDrifting) ==
    IF c.isDrifting
      THEN IF ~wasDrifting
             THEN [c EXCEPT !.driftDuration = 0, !.driftIntensity = 0]
             ELSE LET d == c.driftDuration + dt
                  IN  [c EXCEPT !.driftDuration = d,
                                !.driftIntensity = Min(ONE, Div(d * ONE, Div(maxDriftDuration, 2)))]
      ELSE IF wasDrifting
             THEN [c EXCEPT !.driftDuration = 0, !.driftIntensity = 0]
             ELSE c

\* Car.update, drift timing and intensity
UpdateDriftTiming(c, dt, wasDrifting) ==
    IF c.isDrifting
      THEN IF ~wasDrifting
             THEN [c EXCEPT !.driftDuration = 0, !.driftIntensity = 0]
             ELSE LET d == Min(c.driftDuration + dt, maxDriftDuration)
                  IN  [c EXCEPT !.driftDuration = d,
                                !.driftIntensity = Min(ONE, Div(d * ONE, Div(maxDriftDuration, 2)))]
      ELSE IF wasDrifting
             THEN [c EXCEPT !.driftDuration = 0, !.driftIntensity = 0]
             ELSE c

\* Car.update, heading integration and the heading-locked velocity vector
UpdateHeading(c, dt) ==
    LET effectiveTurnSpeed == IF c.isDrifting THEN Div(turnSpeed * 17, 10) ELSE turnSpeed
        rot == c.rotY + Mul(Mul(Mul(c.steeringAngle, effectiveTurnSpeed), dt),
                            Div(Abs(c.velocity) * ONE, maxSpeed))
    IN  IF c.isDrifting
          THEN [c EXCEPT !.rotY = rot]
          ELSE [c EXCEPT !.rotY = rot,
                         !.vvX = Mul(ForwardX(rot), c.velocity),
                         !.vvY = 0,
                         !.vvZ = Mul(ForwardZ(rot), c.velocity)]

\* Physics.calculateDrift followed by the back-derivation of the scalar speed
calculateDrift(c, dt) ==
    IF ~c.isDrifting THEN c
    ELSE
    LET fx == ForwardX(c.rotY)
        fz == ForwardZ(c.rotY)
        speed == Abs(c.velocity)
        lateral == Mul(Mul(Div(c.steeringAngle * 12, 100), speed), dt)
        forward == Mul(Div(speed * 2, 10), dt)
        x1 == c.vvX + Mul(RightX(c.rotY), lateral) + Mul(fx, forward)
        z1 == c.vvZ + Mul(RightZ(c.rotY), lateral) + Mul(fz, forward)
        len == Len3(x1, c.vvY, z1)
        \* acos(velocityDir . forward) > 0.35 pi  <=>  velocityDir . forward < cos(0.35 pi)
        tooWide == IF len = 0 THEN TRUE
                   ELSE x1 * fx + z1 * fz < 454 * len
        correction == IF tooWide THEN Mul(Div(dt, 10), speed) ELSE 0
        x2 == x1 + Mul(fx, correction)
        z2 == z1 + Mul(fz, correction)
    IN  [c EXCEPT !.vvX = x2, !.vvZ = z2,
                  !.velocity = Len3(x2, c.vvY, z2) * Sign(c.velocity)]

\* Physics.applyFriction
applyFriction(c, dt) ==
    LET boosted == IF c.isDrifting /\ c.velocity > 0
                     THEN Min(c.velocity + Mul(Div(25 * dt, 100), c.velocity), maxSpeed)
                     ELSE c.velocity
        frictionFactor == IF c.isDrifting THEN 995 ELSE 950
    IN  [c EXCEPT !.velocity = boosted,
                  !.vvX = Mul(c.vvX, frictionFactor),
                  !.vvY = Mul(c.vvY, frictionFactor),
                  !.vvZ = Mul(c.vvZ, frictionFactor)]

\* Car.update, position integration
UpdatePosition(c, dt) ==
    [c EXCEPT !.posX = c.posX + Mul(c.vvX, dt), !.posZ = c.posZ + Mul(c.vvZ, dt)]

\* Car.update, from the nitro to the steering: each statement works on the
\* car the one before has left
UpdateControls(c, dt, k) ==
    CHOOSE c3 \in
      { UpdateSteering(c2, k) : c2 \in
      { UpdateSpeed(c1, dt, k) : c1 \in
      { UpdateNitro(c, dt, k) } } } : TRUE

\* Car.update, from the drift throttle to the position
UpdateMotion(c, dt, k, wasDrifting) ==
    CHOOSE c9 \in
      { UpdatePosition(c8, dt) : c8 \in
      { applyFriction(c7, dt) : c7 \in
      { calculateDrift(c6, dt) : c6 \in
      { UpdateHeading(c5, dt) : c5 \in
      { UpdateDriftTiming(c4, dt, wasDrifting) : c4 \in
      { UpdateDriftThrottle(c, k) } } } } } } : TRUE

\* the remainder operator of JavaScript: the sign of the dividend (b > 0)
JsMod(a, b) == a - b * Div(a, b)

\* Car.update, spin detection and scoring: prevRotation is the heading the
\* update began with.  The result carries the spinout events dispatched.
UpdateSpin(c, dt, prevRotation) ==
    LET rotationDelta == c.rotY - prevRotation
        normalizedDelta == JsMod(rotationDelta + PI, TWOPI) - PI
        spinRate == IF dt = 0 THEN 0 ELSE Abs(Div(normalizedDelta * ONE, dt))
        wasSpinning == c.isSpinning
        nowSpinning == spinRate > spinThreshold /\ Abs(c.velocity) > 5000
    IN  IF nowSpinning
          THEN [car |-> [c EXCEPT !.isSpinning = TRUE,
                                  !.spinTime = @ + dt,
                                  !.spinScore =
                                      @ + Div(Mul(Mul(dt, spinRate), Abs(c.velocity)), 10)],
                spins |-> <<>>]
          ELSE IF wasSpinning /\ c.spinTime > minSpinTime
                 THEN [car |-> [c EXCEPT !.isSpinning = FALSE,
                                         !.spinTime = 0, !.spinScore = 0],
                       spins |-> << [score |-> Floor(Div(c.spinScore * 25, 10)),
                                     duration |-> c.spinTime] >>]
                 ELSE [car |-> [c EXCEPT !.isSpinning = FALSE,
                                         !.spinTime = 0, !.spinScore = 0],
                       spins |-> <<>>]

\* Car.update after the drift scoring: motion, then spin detection
UpdateRest(scored, dt, k, c) ==
    CHOOSE u \in
      { [car |-> sp.car, events |-> scored.events, accrued |-> scored.accrued,
         spins |-> sp.spins] : sp \in
      { UpdateSpin(moved, dt, c.rotY) : moved \in
      { UpdateMotion(scored.car, dt, k, c.isDrifting) } } } : TRUE

\* Car.update(deltaTime, keys): the car after the update and the events dispatched
CarUpdate(c, dt, k) ==
    IF "r" \in k
      THEN [car |-> Restart(c), events |-> <<>>, accrued |-> 0, spins |-> <<>>]
    ELSE IF c.isCollided
      THEN [car |-> UpdateCollided(c, dt), events |-> <<>>, accrued |-> 0, spins |-> <<>>]
    ELSE CHOOSE u \in
           { UpdateRest(scored, dt, k, c) : scored \in
           { UpdateDriftScore(c3, dt, k) : c3 \in
           { UpdateControls(c, dt, k) } } } : TRUE

----------------------------------------------------------------------------
(* CollisionField: the colliders of City, queried along the car's forward  *)
(* ray on the ground plane. The traffic cones of City.createCones are discs *)
(* of radius 0.5 with the side's slope in the normal; the boundary walls of *)
(* City.createBoundaryWalls are the inner faces of the four boxes around    *)
(* the track. The jump ramps lie off the lines driven here. Distances of    *)
(* the query are in centimetres (1/100), normals in 1/1000.                 *)

Cones == { <<-20, 0>>, <<20, 0>>, <<0, -20>>, <<0, 20>>,
           <<-60, -60>>, <<60, -60>>, <<-60, 60>>, <<60, 60>> }

coneRadius == 50

\* trackSize / 2 less half the wall thickness: where the walls' inner faces stand
wallFace == 9950

\* distance along the forward ray to the front surface of one cone, -1 when missed
RayHit(c, cone) ==
    LET ox == Div(c.posX, 10) - cone[1] * 100
        oz == Div(c.posZ, 10) - cone[2] * 100
        fx == ForwardX(c.rotY)
        fz == ForwardZ(c.rotY)
        b == Div(ox * fx + oz * fz, ONE)
        cc == ox * ox + oz * oz - coneRadius * coneRadius
        disc == b * b - cc
    IN  IF Abs(ox) > 30000 \/ Abs(oz) > 30000 THEN -1
        ELSE IF disc < 0 THEN -1
        ELSE LET t == -b - ISqrt(disc) IN IF t < 0 THEN -1 ELSE t

\* the hit on one cone: its distance and the normal of the struck face (a cone's
\* side slopes by atan(0.5 / 1.5))
ConeHit(c, cone) ==
    CHOOSE hit \in
      { LET px == Div(c.posX, 10) - cone[1] * 100 + Div(ForwardX(c.rotY) * t, ONE)
            pz == Div(c.posZ, 10) - cone[2] * 100 + Div(ForwardZ(c.rotY) * t, ONE)
        IN  [distance |-> t,
             nx |-> Mul(Div(px * ONE, coneRadius), 949),
             ny |-> 316,
             nz |-> Mul(Div(pz * ONE, coneRadius), 949)] : t \in { RayHit(c, cone) } } : TRUE

\* the hits on the inner faces of the walls, seen from inside the track; face.normal
\* is the normal in the wall's own frame, where the inner face of every wall is
\* an x face (the front and back walls are the same box turned by a quarter)
WallHits(c) ==
    LET ox == Div(c.posX, 10)
        oz == Div(c.posZ, 10)
        fx == ForwardX(c.rotY)
        fz == ForwardZ(c.rotY)
        inside == Abs(ox) < wallFace /\ Abs(oz) < wallFace
        left  == IF inside /\ fx < 0
                   THEN {[distance |-> Div((ox + wallFace) * ONE, -fx),
                          nx |-> ONE, ny |-> 0, nz |-> 0]} ELSE {}
        right == IF inside /\ fx > 0
                   THEN {[distance |-> Div((wallFace - ox) * ONE, fx),
                          nx |-> -ONE, ny |-> 0, nz |-> 0]} ELSE {}
        front == IF inside /\ fz < 0
                   THEN {[distance |-> Div((oz + wallFace) * ONE, -fz),
                          nx |-> -ONE, ny |-> 0, nz |-> 0]} ELSE {}
        back  == IF inside /\ fz > 0
                   THEN {[distance |-> Div((wallFace - oz) * ONE, fz),
                          nx |-> ONE, ny |-> 0, nz |-> 0]} ELSE {}
    IN  left \cup right \cup front \cup back

\* raycaster.intersectObjects(city.colliders): the nearest hit, if any
Intersects(c) ==
    CHOOSE intersects \in
      { IF hits = {} THEN <<>>
        ELSE << CHOOSE h \in hits : \A g \in hits : h.distance <= g.distance >> :
          hits \in { { h \in { ConeHit(c, cone) : cone \in Cones } : h.distance >= 0 }
                       \cup WallHits(c) } } : TRUE

\* a crash trigger without the already-collided guard
triggerCrashAgain(c) ==
    [c EXCEPT !.isCollided = TRUE, !.collisionTimer = 0,
              !.velocity = Mul(c.velocity, 200),
              !.isDrifting = FALSE]

\* a crash that leaves the drift on
triggerCrashKeepsDrift(c) ==
    IF c.isCollided THEN c
    ELSE [c EXCEPT !.isCollided = TRUE, !.collisionTimer = 0,
                   !.velocity = Mul(c.velocity, 200)]

\* Car.triggerCrash
triggerCrash(c) ==
    IF c.isCollided THEN c
    ELSE [c EXCEPT !.isCollided = TRUE, !.collisionTimer = 0,
                   !.velocity = Mul(c.velocity, 200),
                   !.isDrifting = FALSE]

\* Physics.handleCollision: damp the speed, reflect the velocity vector about the
\* struck face's normal and halve it, crash
handleCollision(c, hit) ==
    LET d == Mul(c.vvX, hit.nx) + Mul(c.vvY, hit.ny) + Mul(c.vvZ, hit.nz)
    IN  triggerCrash([c EXCEPT !.velocity = Mul(c.velocity, 300),
                               !.vvX = Div(c.vvX - 2 * Mul(d, hit.nx), 2),
                               !.vvY = Div(c.vvY - 2 * Mul(d, hit.ny), 2),
                               !.vvZ = Div(c.vvZ - 2 * Mul(d, hit.nz), 2)])

\* Physics.checkCollisions(car, city)
checkCollisions(c) ==
    CHOOSE after \in
      { IF Len(intersects) > 0 /\ intersects[1].distance * 10 < collisionRadius
          THEN handleCollision(c, intersects[1])
          ELSE c : intersects \in { Intersects(c) } } : TRUE

\* whether checkCollisions handles a strike in this state
Strikes(c) ==
    \E intersects \in { Intersects(c) } :
        Len(intersects) > 0 /\ intersects[1].distance * 10 < collisionRadius

----------
(* GameState: score and session clock *)

gameTimeLimit == 30000
maxDriftMultiplier == 8000
driftChainTimeout == 1500

\* The localStorage item 'monodrift_highscore' is kept with the GameState as
\* savedHighScore: <<>> while the item is absent, << v >> when it holds the
\* decimal string of v.

\* GameState.loadHighScore: parseInt of the stored string, 0 without an item
loadHighScore(item) == IF item = <<>> THEN 0 ELSE Floor(item[1]) * ONE

\* GameState.saveHighScore
saveHighScore(g) == [g EXCEPT !.savedHighScore = << g.highScore >>]

\* the state the GameState constructor leaves when it finds item in the
\* storage (no leaderboard service attached)
NewGameStateOn(item) ==
    [ score |-> 0, highScore |-> loadHighScore(item), driftMultiplier |-> ONE,
      driftChainTimer |-> 0, gameOver |-> FALSE,
      timeRemaining |-> gameTimeLimit, isTimerRunning |-> FALSE,
      leaderboardService |-> FALSE, savedHighScore |-> item ]

\* the state the GameState constructor leaves with no high score stored yet
NewGameState == NewGameStateOn(<<>>)

\* GameState.setLeaderboardService
setLeaderboardService(g) == [g EXCEPT !.leaderboardService = TRUE]

\* GameState.resetScore
resetScore(g) ==
    [g EXCEPT !.score = 0, !.driftMultiplier = ONE, !.driftChainTimer = 0,
              !.gameOver = FALSE,
              !.timeRemaining = gameTimeLimit, !.isTimerRunning = FALSE]

\* GameState.startTimer
startTimer(g) == [g EXCEPT !.isTimerRunning = TRUE]

\* an addScore that raises the high score without storing it
addScoreUnsaved(g, points) ==
    IF g.isTimerRunning
      THEN LET sc == g.score + points * g.driftMultiplier
           IN  [g EXCEPT !.score = sc, !.highScore = Max(g.highScore, sc)]
      ELSE g

\* GameState.addScore(points), points a whole number
addScore(g, points) ==
    IF g.isTimerRunning
      THEN LET sc == g.score + points * g.driftMultiplier
           IN  IF sc > g.highScore
                 THEN saveHighScore([g EXCEPT !.score = sc, !.highScore = sc])
                 ELSE [g EXCEPT !.score = sc]
      ELSE g

\* a chain that times out only after the timeout has been passed
updateDriftMultiplierLate(g, isDrifting, dt) ==
    IF isDrifting
      THEN [g EXCEPT !.driftChainTimer = 0,
                     !.driftMultiplier = Min(@ + Div(dt * 5, 10), maxDriftMultiplier)]
      ELSE LET timer == g.driftChainTimer + dt
           IN  [g EXCEPT !.driftChainTimer = timer,
                         !.driftMultiplier =
                             IF timer > driftChainTimeout /\ @ > ONE THEN ONE ELSE @]

\* GameState.updateDriftMultiplier(isDrifting, deltaTime)
updateDriftMultiplier(g, isDrifting, dt) ==
    IF isDrifting
      THEN [g EXCEPT !.driftChainTimer = 0,
                     !.driftMultiplier = Min(@ + Div(dt * 5, 10), maxDriftMultiplier)]
      ELSE LET timer == g.driftChainTimer + dt
           IN  [g EXCEPT !.driftChainTimer = timer,
                         !.driftMultiplier =
                             IF timer >= driftChainTimeout /\ @ > ONE THEN ONE ELSE @]

\* updateTimer without the clamp at 0
updateTimerUnclamped(g, dt) ==
    IF ~g.isTimerRunning THEN g
    ELSE IF g.timeRemaining - dt <= 0
      THEN [g EXCEPT !.timeRemaining = g.timeRemaining - dt,
                     !.isTimerRunning = FALSE, !.gameOver = TRUE]
      ELSE [g EXCEPT !.timeRemaining = g.timeRemaining - dt]

\* GameState.updateTimer
updateTimer(g, dt) ==
    IF ~g.isTimerRunning THEN g
    ELSE IF g.timeRemaining - dt <= 0
      THEN [g EXCEPT !.timeRemaining = 0, !.isTimerRunning = FALSE, !.gameOver = TRUE]
      ELSE [g EXCEPT !.timeRemaining = g.timeRemaining - dt]

\* GameState.updateTimer, "time is up": this call stops the clock
TimeUp(g, dt) == g.isTimerRunning /\ g.timeRemaining - dt <= 0

\* GameState.dispatchGameOverEvent: the detail of the gameOver event, topScore
\* being leaderboardService.getTopScore() (0 without a service)
dispatchGameOverEvent(g, topScore) ==
    [finalScore |-> g.score, highScore |-> Max(g.highScore, topScore)]

\* LeaderboardService.getTopScore after a fetch of the rows
TopScore(rows) ==
    IF rows = <<>> THEN 0
    ELSE CHOOSE m \in { rows[i].score : i \in 1 .. Len(rows) } :
           \A j \in 1 .. Len(rows) : rows[j].score <= m

\* nothing handed off yet: no countdown has run out, no refresh is in flight, no
\* gameOver event was dispatched, the service has fetched no rows
NoOver == [zeros |-> 0, pending |-> 0, dispatched |-> 0, topScore |-> 0]

\* a hand-off that dispatches at once and again when the refresh settles
HandOverTwice(o, g, dt) ==
    IF ~TimeUp(g, dt) THEN o
    ELSE IF g.leaderboardService
      THEN [o EXCEPT !.zeros = @ + 1, !.pending = @ + 1, !.dispatched = @ + 1]
      ELSE [o EXCEPT !.zeros = @ + 1, !.dispatched = @ + 1]

\* GameState.updateTimer, what follows "time is up": with a leaderboard service
\* the event waits for fetchLeaderboard to settle, without one it is dispatched
\* at once
HandOver(o, g, dt) ==
    IF ~TimeUp(g, dt) THEN o
    ELSE IF g.leaderboardService
      THEN [o EXCEPT !.zeros = @ + 1, !.pending = @ + 1]
      ELSE [o EXCEPT !.zeros = @ + 1, !.dispatched = @ + 1]

----------------------------------------------------------------------------
(* Game: the frame loop and the player *)

\* last: op names the step; pre and preGs are the car and the game state before
\* it; updated is the car between Car.update and checkCollisions; events are the
\* driftScore events dispatched; struck tells that checkCollisions handled a
\* strike; sinceStrike is the frame time passed since the strike that crashed
\* the car (0 when the car was not crashed before the frame); gameOver are the
\* gameOver events dispatched; sessionPoints and sessionCommits are the sum and
\* the number of the driftScore events dispatched since the session's start
\* while its clock was running; accrued is the sum of the points accrued frame
\* by frame since the drift began, kept through the frame that commits it;
\* drifting is the isDrifting argument of the latest updateDriftMultiplier
\* call and idle the time its non-drifting calls have added up since the
\* latest drifting one; spins are the spinout events dispatched
NoStep == [op |-> "init", dt |-> 0, pre |-> NewCar, updated |-> NewCar,
           preGs |-> NewGameState, events |-> <<>>, struck |-> FALSE,
           sinceStrike |-> 0, gameOver |-> <<>>,
           sessionPoints |-> 0, sessionCommits |-> 0, accrued |-> 0,
           drifting |-> FALSE, idle |-> 0, spins |-> <<>>]

\* the first delay of fetchLeaderboardWithRetries, in ms, and the default of
\* maxRetries
firstDelay == 1000
defaultRetries == 3

\* LeaderboardService.constructor: not initialized, nothing fetched; attempts
\* and failures count the fetchLeaderboard calls of the retry loop and those
\* among them whose request to the backend failed
NoFetch ==
    [pc |-> "idle", maxRetries |-> 0, retries |-> 0, delay |-> firstDelay,
     attempts |-> 0, failures |-> 0, isInitialized |-> FALSE, returned |-> FALSE]

\* nothing a fetchLeaderboard call has done yet
NoCall == [op |-> "", by |-> "", queried |-> FALSE, outcome |-> "", result |-> <<>>,
           cached |-> <<>>]

\* LeaderboardService.constructor: nothing cached, no fetch in progress.
\* fetches are the fetchLeaderboard calls awaiting their select, refreshes
\* counts the calls made by the page's refreshes, seen is what the last step
\* of a call did, and fresh the submitScore calls whose write was done when
\* the select that filled topScores was sent
NewService ==
    [topScores |-> <<>>, isLoading |-> FALSE, fetches |-> <<>>, refreshes |-> 0,
     fresh |-> {}, seen |-> NoCall]

\* the Game constructor with a GameState g
InitWith(g) ==
    /\ car = NewCar
    /\ gs = g
    /\ isRunning = FALSE
    /\ keys = {}
    /\ seg = 0
    /\ frame = 0
    /\ last = [NoStep EXCEPT !.preGs = g]
    /\ session = 0
    /\ over = NoOver
    /\ table = <<>>
    /\ clients = <<>>
    /\ fetcher = NoFetch
    /\ service = NewService
    /\ lastTime = 0
    /\ clock = 0

\* the Game constructor attaches the leaderboard service
Init == InitWith(setLeaderboardService(NewGameState))

\* a GameState with or without a leaderboard service
InitAnyService ==
    \E g \in {NewGameState, setLeaderboardService(NewGameState)} : InitWith(g)

\* Game.startGame, from the first click
StartGame ==
    /\ ~isRunning
    /\ isRunning' = TRUE
    /\ gs' = startTimer(resetScore(gs))
    /\ last' = [last EXCEPT !.op = "startGame", !.dt = 0, !.pre = car,
                            !.updated = car, !.preGs = gs, !.events = <<>>, !.spins = <<>>,
                            !.struck = FALSE, !.gameOver = <<>>,
                            !.sessionPoints = 0, !.sessionCommits = 0]
    /\ session' = session + 1
    /\ UNCHANGED <<car, keys, seg, frame, over, boardVars, timeVars>>

\* the longest frame time Game.animate processes, in ms
maxFrameTime == 200

\* a display that never skips
SkippedNever(dt) == FALSE

\* Game.animate, "skip large time jumps"
Skipped(dt) == dt > maxFrameTime

\* Game.animate, a skipped frame: return before anything is updated
SkipFrame(dt) ==
    /\ last' = [last EXCEPT !.op = "skip", !.dt = dt, !.pre = car, !.updated = car,
                            !.preGs = gs, !.events = <<>>, !.spins = <<>>, !.struck = FALSE,
                            !.gameOver = <<>>]
    /\ UNCHANGED <<car, gs, over>>

\* Game.animate, a processed frame of frame time dt in which the controls k
\* are held: GameState.updateTimer, Car.update, Physics.checkCollisions.
\* last.updated is the car between Car.update and checkCollisions.
ProcessFrame(k, dt) ==
    /\ gs' = updateTimer(gs, dt)
    /\ over' = HandOver(over, gs, dt)
    /\ \E u \in {CarUpdate(car, dt, k)} :
         /\ car' = checkCollisions(u.car)
         /\ last' = [op |-> "animate", dt |-> dt, pre |-> car, updated |-> u.car,
                     preGs |-> gs, events |-> u.events, struck |-> Strikes(u.car),
                     sinceStrike |-> IF car.isCollided /\ "r" \notin k
                                       THEN last.sinceStrike + dt ELSE 0,
                     gameOver |-> IF TimeUp(gs, dt) /\ ~gs.leaderboardService
                                    THEN << dispatchGameOverEvent(updateTimer(gs, dt), 0) >>
                                    ELSE <<>>,
                     sessionPoints |->
                         IF u.events # <<>> /\ updateTimer(gs, dt).isTimerRunning
                           THEN last.sessionPoints + u.events[1].points
                           ELSE last.sessionPoints,
                     sessionCommits |->
                         IF u.events # <<>> /\ updateTimer(gs, dt).isTimerRunning
                           THEN last.sessionCommits + 1
                           ELSE last.sessionCommits,
                     accrued |->
                         IF u.car.isDrifting
                           THEN IF car.isDrifting THEN last.accrued + u.accrued ELSE 0
                           ELSE IF u.events # <<>> THEN last.accrued ELSE 0,
                     drifting |-> last.drifting, idle |-> last.idle,
                     spins |-> u.spins]

\* Game.animate(currentTime) while the game runs and the controls k are held:
\* the frame time is measured from the timestamp kept, which is replaced, and
\* the frame is skipped or processed
Animate(k, currentTime) ==
    /\ isRunning
    /\ lastTime' = currentTime
    /\ clock' = currentTime
    /\ \E dt \in { currentTime - lastTime } :
         IF Skipped(dt) THEN SkipFrame(dt) ELSE ProcessFrame(k, dt)
    /\ keys' = k
    /\ frame' = frame + 1
    /\ UNCHANGED <<isRunning, session, boardVars>>

\* fetchLeaderboard started by updateTimer settles, resolved or rejected: either
\* way its handler calls dispatchGameOverEvent
SettleRefresh ==
    /\ over.pending > 0
    /\ \E outcome \in {"resolved", "rejected"} :
         \E top \in {IF outcome = "resolved" THEN TopScore(table) ELSE over.topScore} :
           /\ over' = [over EXCEPT !.pending = @ - 1, !.dispatched = @ + 1,
                                   !.topScore = top]
           /\ last' = [last EXCEPT !.op = "gameOver", !.dt = 0, !.pre = car,
                                   !.updated = car, !.preGs = gs, !.events = <<>>, !.spins = <<>>,
                                   !.struck = FALSE,
                                   !.gameOver = << dispatchGameOverEvent(gs, top) >>]
    /\ UNCHANGED <<car, gs, isRunning, keys, seg, frame, session, boardVars, timeVars>>

\* the RESTART button of the game-over message, then START in the name prompt:
\* Game.startGame once more.  Timestamps are counted from the start of the
\* session: Game.animate uses only the difference of two timestamps, and the
\* callbacks between two sessions keep lastTime at the latest of them.
StartAgain(maxSessions) ==
    /\ isRunning
    /\ over.dispatched >= session
    /\ session < maxSessions
    /\ gs' = startTimer(resetScore(gs))
    /\ last' = [last EXCEPT !.op = "startGame", !.dt = 0, !.pre = car,
                            !.updated = car, !.preGs = gs, !.events = <<>>, !.spins = <<>>,
                            !.struck = FALSE, !.gameOver = <<>>,
                            !.sessionPoints = 0, !.sessionCommits = 0]
    /\ session' = session + 1
    /\ seg' = 0
    /\ lastTime' = 0
    /\ clock' = 0
    /\ UNCHANGED <<car, isRunning, keys, frame, over, boardVars>>

\* The player and the display.  A plan is a sequence of settings, each the set
\* of controls held and the time from one callback of the display to the next;
\* in every frame the player keeps the present setting or moves on to a later
\* one.  At most maxFrames frames.
Setting(k, dt) == [keys |-> k, dt |-> dt]

Drive(plan, maxFrames) ==
    /\ frame < maxFrames
    /\ \E s \in Max(seg, 1) .. Len(plan) :
         /\ seg' = s
         /\ Animate(plan[s].keys, clock + plan[s].dt)

\* GameState.addScore called by a scoring listener while the game runs
ScorePoints == {5}
MaxAddedScore == 10

AddScore ==
    /\ isRunning
    /\ gs.score < MaxAddedScore * ONE
    /\ \E p \in ScorePoints : gs' = addScore(gs, p)
    /\ last' = [last EXCEPT !.op = "addScore", !.dt = 0, !.pre = car, !.updated = car,
                            !.preGs = gs, !.events = <<>>, !.spins = <<>>, !.struck = FALSE,
                            !.gameOver = <<>>]
    /\ UNCHANGED <<car, isRunning, keys, seg, frame, session, over, boardVars, timeVars>>

\* a call of GameState.updateDriftMultiplier(isDrifting, deltaTime)
MaxComboCalls == 6
ComboTimes == {0, 500, 4000}

UpdateDriftMultiplier ==
    /\ frame < MaxComboCalls
    /\ \E isDrifting \in BOOLEAN, dt \in ComboTimes :
         /\ gs' = updateDriftMultiplier(gs, isDrifting, dt)
         /\ last' = [last EXCEPT !.op = "updateDriftMultiplier", !.dt = dt,
                                 !.pre = car, !.updated = car, !.preGs = gs,
                                 !.events = <<>>, !.spins = <<>>, !.struck = FALSE, !.gameOver = <<>>,
                                 !.drifting = isDrifting,
                                 !.idle = IF isDrifting THEN 0 ELSE @ + dt]
    /\ frame' = frame + 1
    /\ UNCHANGED <<car, isRunning, keys, seg, session, over, boardVars, timeVars>>

\* a call of GameState.resetScore()
ResetScore ==
    /\ gs' = resetScore(gs)
    /\ last' = [last EXCEPT !.op = "resetScore", !.dt = 0, !.pre = car, !.updated = car,
                            !.preGs = gs, !.events = <<>>, !.spins = <<>>, !.struck = FALSE,
                            !.gameOver = <<>>]
    /\ UNCHANGED <<car, isRunning, keys, seg, frame, session, over, boardVars, timeVars>>

\* a call of GameState.startTimer()
StartTimer ==
    /\ ~gs.isTimerRunning
    /\ gs' = startTimer(gs)
    /\ last' = [last EXCEPT !.op = "startTimer", !.dt = 0, !.pre = car, !.updated = car,
                            !.preGs = gs, !.events = <<>>, !.spins = <<>>, !.struck = FALSE,
                            !.gameOver = <<>>]
    /\ UNCHANGED <<car, isRunning, keys, seg, frame, session, over, boardVars, timeVars>>

\* the storage the constructor may find: nothing, or the high score an
\* earlier visit has saved
StoredItems == { <<>>, << 7500 >> }

InitStored ==
    \E item \in StoredItems : InitWith(setLeaderboardService(NewGameStateOn(item)))

----------------------------------------------------------------------------
(* LeaderboardService.submitScore: each call is a client of the shared table *)
(* and takes one step per request it awaits.                                 *)

PlayerNames == {"ann", "bob"}
SubmittedScores == {1, 2, 3}
MaxClients == 3

\* the rows a select on player_name can return with limit 1
RowsOf(rows, name) == { j \in 1 .. Len(rows) : rows[j].player_name = name }

\* submitScore(playerName, score) is called: name and score are given.
\* before is the table at the time of the call, returned the value the call
\* returns once its pc is "done".
SubmitScore ==
    /\ Len(clients) < MaxClients
    /\ \E name \in PlayerNames, score \in SubmittedScores :
         clients' = Append(clients, [playerName |-> name, score |-> score,
                                     pc |-> "select", existing |-> 0,
                                     before |-> table, returned |-> FALSE])
    /\ UNCHANGED <<table, fetcher, service, gameVars>>

\* the select by player_name returns: update the row found when the new score
\* is higher, keep it otherwise, insert when no row was found
SelectExisting ==
    /\ \E i \in 1 .. Len(clients) :
         /\ clients[i].pc = "select"
         /\ IF RowsOf(table, clients[i].playerName) = {}
              THEN clients' = [clients EXCEPT ![i].pc = "insert"]
              ELSE \E j \in RowsOf(table, clients[i].playerName) :
                     clients' =
                       IF clients[i].score > table[j].score
                         THEN [clients EXCEPT ![i].pc = "update", ![i].existing = j]
                         ELSE [clients EXCEPT ![i].pc = "refresh"]
    /\ UNCHANGED <<table, fetcher, service, gameVars>>

\* an update that the table filters out without an error
UpdateRowFiltered ==
    /\ \E i \in 1 .. Len(clients) :
         /\ clients[i].pc = "update"
         /\ table' = table
         /\ clients' = [clients EXCEPT ![i].pc = "refresh"]
    /\ UNCHANGED <<fetcher, service, gameVars>>

\* the update by id is executed (the setup guide's policies allow select,
\* insert and update to anyone)
UpdateRow ==
    /\ \E i \in 1 .. Len(clients) :
         /\ clients[i].pc = "update"
         /\ table' = [table EXCEPT ![clients[i].existing].score = clients[i].score]
         /\ clients' = [clients EXCEPT ![i].pc = "refresh"]
    /\ UNCHANGED <<fetcher, service, gameVars>>

\* the insert of a new row is executed
InsertRow ==
    /\ \E i \in 1 .. Len(clients) :
         /\ clients[i].pc = "insert"
         /\ table' = Append(table, [player_name |-> clients[i].playerName,
                                     score |-> clients[i].score])
         /\ clients' = [clients EXCEPT ![i].pc = "refresh"]
    /\ UNCHANGED <<fetcher, service, gameVars>>

\* the closing fetchLeaderboard returns and submitScore with it
FinishSubmit ==
    /\ \E i \in 1 .. Len(clients) :
         /\ clients[i].pc = "refresh"
         /\ clients' = [clients EXCEPT ![i].pc = "done", ![i].returned = TRUE]
    /\ UNCHANGED <<table, fetcher, service, gameVars>>

NextBoard == SubmitScore \/ SelectExisting \/ UpdateRow \/ InsertRow \/ FinishSubmit

SpecBoard == Init /\ [][NextBoard]_vars

\* LeaderboardService.fetchLeaderboard of the retry variant: whatever fails
\* inside is caught and an empty list returned, so the call never throws
fetchLeaderboard(ok, rows) ==
    [thrown |-> FALSE, data |-> IF ok THEN rows ELSE <<>>]

\* LeaderboardService.initialize(maxRetries) is called
Initialize ==
    /\ fetcher.pc = "idle"
    /\ \E m \in 0 .. defaultRetries :
         fetcher' = [fetcher EXCEPT !.pc = "loop", !.maxRetries = m]
    /\ UNCHANGED <<table, clients, service, gameVars>>

\* fetchLeaderboardWithRetries, one turn of its loop: an attempt whose request
\* succeeds or fails, then return, or wait and go round again; after the loop,
\* throw, which makes initialize return false
FetchAttempt ==
    /\ fetcher.pc = "loop"
    /\ IF fetcher.retries < fetcher.maxRetries
         THEN \E ok \in BOOLEAN :
                \E r \in { fetchLeaderboard(ok, table) } :
                  /\ fetcher' =
                       IF r.thrown
                         THEN [fetcher EXCEPT
                                 !.attempts = @ + 1,
                                 !.failures = @ + 1,
                                 !.retries = @ + 1,
                                 !.delay = IF fetcher.retries + 1 < fetcher.maxRetries
                                             THEN (@ * 3) \div 2 ELSE @]
                         ELSE [fetcher EXCEPT
                                 !.attempts = @ + 1,
                                 !.failures = IF ok THEN @ ELSE @ + 1,
                                 !.pc = "done", !.isInitialized = TRUE,
                                 !.returned = TRUE]
                  /\ over' = IF ok THEN [over EXCEPT !.topScore = TopScore(table)]
                                   ELSE over
         ELSE /\ fetcher' = [fetcher EXCEPT !.pc = "done", !.returned = FALSE]
              /\ over' = over
    /\ UNCHANGED <<table, clients, service, car, gs, isRunning, keys, seg, frame, last,
                   session, timeVars>>

\* submitScore called only when no other call is in progress
SubmitAlone ==
    /\ \A i \in 1 .. Len(clients) : clients[i].pc = "done"
    /\ SubmitScore

NextAlone == SubmitAlone \/ SelectExisting \/ UpdateRow \/ InsertRow \/ FinishSubmit

SpecAlone == Init /\ [][NextAlone]_vars

\* the service is initialized while scores are being submitted
NextFetch == NextAlone \/ Initialize \/ FetchAttempt

SpecFetch == Init /\ [][NextFetch]_vars

----------------------------------------------------------------------------
(* LeaderboardService.fetchLeaderboard with its isLoading guard, called by   *)
(* the page's refreshes and by submitScore after its write.  A call that     *)
(* queries takes three steps: the request is sent, the backend executes the  *)
(* select, the response settles the call.                                    *)

\* config.leaderboard.entriesLimit
entriesLimit == 10

\* order('score', { ascending: false }): the rows by score, highest first,
\* rows of equal score in the order of the table
RECURSIVE OrderByScore(_)
OrderByScore(rows) ==
    IF rows = <<>> THEN <<>>
    ELSE LET top == CHOOSE i \in 1 .. Len(rows) :
                      /\ \A j \in 1 .. Len(rows) : rows[j].score <= rows[i].score
                      /\ \A j \in 1 .. (i - 1) : rows[j].score < rows[i].score
             rest == [k \in 1 .. (Len(rows) - 1) |->
                        IF k < top THEN rows[k] ELSE rows[k + 1]]
         IN  << rows[top] >> \o OrderByScore(rest)

\* the select of fetchLeaderboard: select('*').order(...).limit(limit)
SelectTop(rows, limit) == SubSeq(OrderByScore(rows), 1, Min(Len(rows), limit))

\* the submitScore calls that have their write behind them
PastWrite == { j \in 1 .. Len(clients) : clients[j].pc \in {"refresh", "await", "done"} }

\* all of a sequence but its c-th element
Without(seq, c) == [k \in 1 .. (Len(seq) - 1) |-> IF k < c THEN seq[k] ELSE seq[k + 1]]

\* fetchLeaderboard is called on the service s by `by` (for the submitScore
\* call i, or 0): while a fetch is loading it returns the cached topScores
\* without a query, otherwise it sets isLoading and sends the select.
\* after: the submitScore calls whose write was done when the select was sent
fetchLeaderboardCall(s, by, i) ==
    IF s.isLoading
      THEN [s EXCEPT !.seen = [op |-> "call", by |-> by, queried |-> FALSE,
                               outcome |-> "cached", result |-> s.topScores,
                               cached |-> s.topScores]]
      ELSE [s EXCEPT !.isLoading = TRUE,
                     !.fetches = Append(@, [by |-> by, client |-> i, pc |-> "query",
                                            data |-> <<>>, after |-> PastWrite]),
                     !.seen = [op |-> "call", by |-> by, queried |-> TRUE,
                               outcome |-> "", result |-> <<>>,
                               cached |-> s.topScores]]

\* what the await of the select can bring: rows, an error of the backend, an
\* exception
FetchOutcomes == {"data", "error", "exception"}

\* a fetchLeaderboard without its finally block: isLoading is cleared on the
\* paths that return normally only
fetchLeaderboardSettleNoFinally(s, c, outcome) ==
    [s EXCEPT !.topScores = IF outcome = "data" THEN s.fetches[c].data ELSE @,
              !.fresh = IF outcome = "data" THEN s.fetches[c].after ELSE @,
              !.isLoading = IF outcome = "exception" THEN @ ELSE FALSE,
              !.fetches = Without(@, c),
              !.seen = [op |-> "settle", by |-> s.fetches[c].by, queried |-> TRUE,
                        outcome |-> outcome,
                        result |-> IF outcome = "data" THEN s.fetches[c].data ELSE <<>>,
                        cached |-> s.topScores]]

\* fetchLeaderboard, from the await of the select to the return of the c-th
\* fetch in flight: rows become topScores and are returned; an error or an
\* exception returns [] and leaves topScores; finally isLoading = false
fetchLeaderboardSettle(s, c, outcome) ==
    [s EXCEPT !.topScores = IF outcome = "data" THEN s.fetches[c].data ELSE @,
              !.fresh = IF outcome = "data" THEN s.fetches[c].after ELSE @,
              !.isLoading = FALSE,
              !.fetches = Without(@, c),
              !.seen = [op |-> "settle", by |-> s.fetches[c].by, queried |-> TRUE,
                        outcome |-> outcome,
                        result |-> IF outcome = "data" THEN s.fetches[c].data ELSE <<>>,
                        cached |-> s.topScores]]

MaxSubmits == 2
MaxRefreshes == 2

\* submitScore is called on the service, one call after the other
SubmitOnService ==
    /\ Len(clients) < MaxSubmits
    /\ SubmitAlone

\* LeaderboardUI.refreshLeaderboard, by the timer of startPeriodicRefresh or
\* at game over: fetchLeaderboard is called
RefreshLeaderboard ==
    /\ service.refreshes < MaxRefreshes
    /\ \E by \in {"periodic", "gameOver"} :
         service' = [fetchLeaderboardCall(service, by, 0) EXCEPT !.refreshes = @ + 1]
    /\ UNCHANGED <<table, clients, fetcher, gameVars>>

\* submitScore, "Refresh leaderboard after submitting": await
\* this.fetchLeaderboard(); a call that returns the cache lets submitScore
\* return true at once
SubmitRefresh ==
    /\ \E i \in 1 .. Len(clients) :
         /\ clients[i].pc = "refresh"
         /\ service' = fetchLeaderboardCall(service, "submit", i)
         /\ clients' = IF service.isLoading
                         THEN [clients EXCEPT ![i].pc = "done", ![i].returned = TRUE]
                         ELSE [clients EXCEPT ![i].pc = "await"]
    /\ UNCHANGED <<table, fetcher, gameVars>>

\* the backend executes the select of a fetch
BackendSelect ==
    /\ \E c \in 1 .. Len(service.fetches) :
         /\ service.fetches[c].pc = "query"
         /\ service' = [service EXCEPT !.fetches[c].pc = "read",
                                       !.fetches[c].data = SelectTop(table, entriesLimit),
                                       !.seen.op = "select"]
    /\ UNCHANGED <<table, clients, fetcher, gameVars>>

\* the await of the select ends and fetchLeaderboard returns; rows come only
\* from a select that was executed.  A submitScore that awaited the call
\* returns true.
FetchSettle ==
    /\ \E c \in 1 .. Len(service.fetches), outcome \in FetchOutcomes :
         /\ (outcome = "data") => (service.fetches[c].pc = "read")
         /\ service' = fetchLeaderboardSettle(service, c, outcome)
         /\ clients' = IF service.fetches[c].by = "submit"
                         THEN [clients EXCEPT ![service.fetches[c].client].pc = "done",
                                              ![service.fetches[c].client].returned = TRUE]
                         ELSE clients
    /\ UNCHANGED <<table, fetcher, gameVars>>

NextRefresh ==
    \/ SubmitOnService \/ SelectExisting \/ UpdateRow \/ InsertRow \/ SubmitRefresh
    \/ RefreshLeaderboard \/ BackendSelect \/ FetchSettle

SpecRefresh == Init /\ [][NextRefresh]_vars

----------------------------------------------------------------------------
(* Specifications: what the player does *)

\* Play: full throttle with nitro toward the cone ahead of the spawn point,
\* coasting, throttle, drift, restart, coasting at a slower frame rate
MaxFrames == 16

PlayPlan ==
    << Setting({"up", "shift"}, 200), Setting({}, 200), Setting({"up"}, 200),
       Setting({"space"}, 200), Setting({"r"}, 200), Setting({}, 150) >>

Play == Drive(PlayPlan, MaxFrames)

Next == StartGame \/ Play

Spec == Init /\ [][Next]_vars

\* Drifting toward the cone, no restart
MaxDriftFrames == 10

DriftPlan ==
    << Setting({"up"}, 200), Setting({"space"}, 200), Setting({}, 200) >>

PlayDrift == Drive(DriftPlan, MaxDriftFrames)

NextDrift == StartGame \/ PlayDrift

SpecDrift == Init /\ [][NextDrift]_vars

\* Reversing from the spawn point and drifting in reverse
MaxReverseFrames == 24

ReversePlan ==
    << Setting({"down"}, 200), Setting({"down", "space", "left"}, 200),
       Setting({"down", "space"}, 200), Setting({}, 200) >>

PlayReverse == Drive(ReversePlan, MaxReverseFrames)

NextReverse == StartGame \/ PlayReverse

SpecReverse == Init /\ [][NextReverse]_vars

\* Waiting until the session clock has run out, then driving and drifting
MaxOvertimeFrames == 6

ClockPlan ==
    << Setting({}, 200), Setting({"up"}, 200), Setting({"space"}, 200),
       Setting({}, 200) >>

PlayClock ==
    /\ gs.isTimerRunning => (seg' = 1)
    /\ Drive(ClockPlan, gameTimeLimit \div 200 + MaxOvertimeFrames)

NextClock == StartGame \/ AddScore \/ PlayClock \/ SettleRefresh

SpecClock == InitAnyService /\ [][NextClock]_vars

\* PlayLongDrift: in reverse, then the drift control held for more than
\* maxDriftDuration, then everything released.
MaxLongDriftFrames == 30

LongDriftPlan ==
    << Setting({"down"}, 200), Setting({"down", "space"}, 200), Setting({}, 200) >>

PlayLongDrift == Drive(LongDriftPlan, MaxLongDriftFrames)

NextLongDrift == StartGame \/ PlayLongDrift

SpecLongDrift == Init /\ [][NextLongDrift]_vars

\* PlayNitro: throttle with nitro, a drift with the nitro control held, the
\* drift control released with nitro still held, the restart key.
MaxNitroFrames == 12

NitroPlan ==
    << Setting({"up", "shift"}, 200), Setting({"up"}, 200),
       Setting({"space", "shift"}, 200), Setting({"shift"}, 200),
       Setting({"r", "shift"}, 200) >>

PlayNitro == Drive(NitroPlan, MaxNitroFrames)

NextNitro == StartGame \/ PlayNitro

SpecNitro == Init /\ [][NextNitro]_vars

\* PlaySkips: throttle, with the display stalling for a second (a tab in the
\* background) or running a shade too slow now and then.
MaxSkipFrames == 8

SkipPlan ==
    << Setting({"up"}, 200), Setting({"up"}, 1000), Setting({"up"}, 150),
       Setting({"up"}, 201), Setting({}, 200) >>

PlaySkips == Drive(SkipPlan, MaxSkipFrames)

NextSkips == StartGame \/ PlaySkips

SpecSkips == Init /\ [][NextSkips]_vars



\* The score keeper driven call by call: updateDriftMultiplier, addScore,
\* resetScore and startTimer in any order, on a storage with or without a
\* saved high score.
NextScore == StartGame \/ StartTimer \/ AddScore \/ ResetScore \/ UpdateDriftMultiplier

SpecScore == InitStored /\ [][NextScore]_vars


\* PlaySpin: throttle, then the drift control and full left steering at ten
\* frames a second, then the restart key or nothing but the throttle.
MaxSpinFrames == 11

SpinPlan ==
    << Setting({"up"}, 200),
       Setting({"up", "space", "left"}, 100),
       Setting({"r"}, 100),
       Setting({"up"}, 100) >>

PlaySpin == Drive(SpinPlan, MaxSpinFrames)

NextSpin == StartGame \/ PlaySpin

SpecSpin == Init /\ [][NextSpin]_vars


\* PlaySign: reverse from rest, throttle against the reverse motion and on
\* into forward motion, brake, coast.
MaxSignFrames == 8

SignPlan ==
    << Setting({"down"}, 200), Setting({"up"}, 200), Setting({"down"}, 200),
       Setting({}, 200) >>

PlaySign == Drive(SignPlan, MaxSignFrames)

NextSign == StartGame \/ PlaySign

SpecSign == Init /\ [][NextSign]_vars


\* PlayBrake: a push of the throttle, then the brake held for as long as the
\* frames last.  animate asks for its next callback in every frame, so frames
\* keep coming until the last one.
MaxBrakeFrames == 100

BrakePlan == << Setting({"up"}, 50), Setting({"down"}, 200) >>

PlayBrake == Drive(BrakePlan, MaxBrakeFrames)

NextBrake == StartGame \/ PlayBrake

\* a frame is played: the step of PlayBrake as the frame counter shows it
FrameComes == isRunning /\ frame < MaxBrakeFrames /\ frame' = frame + 1

SpecBrake == Init /\ [][NextBrake]_vars /\ WF_frame(FrameComes)

\* PlaySteer: a throttle frame, then the drift control and full left steering
\* held, with and without throttle, at frame times of 0.2 s and 0.05 s.
MaxSteerFrames == 9

SteerPlan ==
    << Setting({"up"}, 200),
       Setting({"up", "space", "left"}, 200),
       Setting({"up", "space", "left"}, 50),
       Setting({"space", "left"}, 200) >>

PlaySteer == Drive(SteerPlan, MaxSteerFrames)

NextSteer == StartGame \/ PlaySteer

SpecSteer == Init /\ [][NextSteer]_vars

\* PlaySessions: in the first frames of a session the player accelerates, then
\* drifts, then lets go; afterwards nothing is held while the countdown runs
\* out.  From the game-over message a second session is started.
MaxSessions == 2
DriveFrames == 7
MaxLaterFrames == 9

SessionPlan ==
    << Setting({"up"}, 200), Setting({"space"}, 200), Setting({}, 200) >>

PlaySessions ==
    /\ (gs.timeRemaining <= gameTimeLimit - DriveFrames * 200) =>
           (seg' = Len(SessionPlan))
    /\ Drive(SessionPlan, gameTimeLimit \div 200 + MaxLaterFrames)

NextSessions ==
    StartGame \/ PlaySessions \/ SettleRefresh \/ StartAgain(MaxSessions)

SpecSessions == Init /\ [][NextSessions]_vars

\* PlayTimer: nobody touches the controls; the display runs at 5 frames a
\* second or at about 6, chosen when a session starts, so the countdown ends on
\* 0 exactly or would pass it.  A session is played for at most
\* MaxOvertimeFrames frames beyond its countdown.  The refresh of the
\* leaderboard settles.
SlowFrame == 200
FastFrame == 170

TimerPlan == << Setting({}, SlowFrame), Setting({}, FastFrame) >>

PlayTimer ==
    /\ seg # 0 => seg' = seg
    /\ clock < gameTimeLimit + MaxOvertimeFrames * FastFrame
    /\ Drive(TimerPlan,
             session * (gameTimeLimit \div FastFrame + 1) + MaxOvertimeFrames)

NextTimer ==
    StartGame \/ PlayTimer \/ SettleRefresh \/ StartAgain(MaxSessions)

SpecTimer ==
    InitAnyService /\ [][NextTimer]_vars /\ WF_vars(SettleRefresh)

----------------------------------------------------------------------------
(* Properties *)

AnimateFrame == last.op = "animate"

\* a frame in which the driver does not hold the restart key
PlainFrame == AnimateFrame /\ "r" \notin keys

\* C1: at the end of every frame the scalar speed lies between -maxSpeed/3
\* and 1.4 * maxSpeed
C1_SpeedWithinLimits ==
    /\ 3 * car.velocity >= -maxSpeed
    /\ 10 * car.velocity <= 14 * maxSpeed

\* C2: at the end of every frame the nitro level lies between 0 and 100
C2_NitroWithinRange ==
    /\ car.currentNitro >= 0
    /\ car.currentNitro <= nitroAmount

\* C3: during a running session that is not over, a frame never lowers the
\* cumulative total score, and committed drift points are never negative
C3_TotalNeverDecreases ==
    (AnimateFrame /\ ~last.preGs.gameOver) =>
        /\ car.totalScore >= last.pre.totalScore
        /\ \A i \in 1 .. Len(last.events) : last.events[i].points >= 0

\* C4: while the session clock is not running, neither addScore nor a drift
\* commit changes a score
C4_NoScoreWithoutClock ==
    (last.op \in {"animate", "addScore"} /\ ~last.preGs.isTimerRunning) =>
        /\ gs.score = last.preGs.score
        /\ car.totalScore = last.pre.totalScore

\* the drift state went from true to false within the frame
DriftEnded == AnimateFrame /\ last.pre.isDrifting /\ ~car.isDrifting

\* C5: a frame in which drifting goes from true to false dispatches exactly one
\* driftScore event carrying floor(bucket) and the new total; any other frame
\* dispatches none
C5_OneEventPerDriftEnd ==
    AnimateFrame =>
        IF DriftEnded
          THEN /\ Len(last.events) = 1
               /\ last.events[1].points = Floor(last.pre.activeDriftPoints)
               /\ last.events[1].total = car.totalScore
          ELSE last.events = <<>>

\* C6: apart from restart frames, the bucket is committed to the total and
\* reset in the frame in which drifting goes from true to false, whatever
\* ended the drift, and the bucket is 0 whenever the car is not drifting
C6_BucketCommittedAtDriftEnd ==
    PlainFrame =>
        /\ DriftEnded =>
             car.totalScore = last.pre.totalScore + Floor(last.pre.activeDriftPoints)
        /\ ~car.isDrifting => car.activeDriftPoints = 0

\* the frame in which a strike crashes the car
StrikeFrame == AnimateFrame /\ last.struck /\ ~last.updated.isCollided

\* C7: a strike leaves the car crashed with 0.3 times the speed it had just
\* before the strike
C7_StrikeKeepsThreeTenths ==
    StrikeFrame =>
        /\ car.isCollided
        /\ Abs(car.velocity - Mul(last.updated.velocity, 300)) <= 1

\* a frame that starts crashed, without restart, and ends before recovery
CrashedFrame ==
    /\ PlainFrame
    /\ last.pre.isCollided
    /\ last.pre.collisionTimer + last.dt < collisionRecoveryTime

\* C8: a crashed frame changes nothing of the car but the recovery timer
C8_CrashedFrameOnlyTimer ==
    CrashedFrame =>
        car = [last.pre EXCEPT !.collisionTimer = @ + last.dt]

\* the state revive() leaves, seen from the car before the frame
Revived ==
    /\ ~car.isCollided
    /\ car.velocity = 0
    /\ car.vvX = 0 /\ car.vvY = 0 /\ car.vvZ = 0
    /\ ~car.isNitroActive
    /\ ~car.isDrifting
    /\ car.rotY = last.pre.rotY
    /\ car.posX = last.pre.posX - Mul(ForwardX(last.pre.rotY), 3 * ONE)
    /\ car.posZ = last.pre.posZ - Mul(ForwardZ(last.pre.rotY), 3 * ONE)

\* C9: a crashed car is revived in the first frame in which the frame time
\* passed since the strike reaches the recovery time, and stays crashed in
\* every earlier frame, strikes detected meanwhile notwithstanding; the strike
\* itself starts the timer at 0
C9_RevivedAfterRecoveryTime ==
    /\ StrikeFrame => (car.isCollided /\ car.collisionTimer = 0)
    /\ (PlainFrame /\ last.pre.isCollided) =>
          IF last.sinceStrike >= collisionRecoveryTime
            THEN Revived
            ELSE car.isCollided /\ car.collisionTimer = last.sinceStrike

\* a car revived in the frame in which the time since the strike reaches the
\* recovery time
C9_Witness ==
    /\ PlainFrame
    /\ last.pre.isCollided
    /\ ~car.isCollided
    /\ last.sinceStrike >= collisionRecoveryTime

\* C10: a frame with the restart key held puts the car at the spawn position
\* and heading with speed and velocity 0, no drift, no crash, empty bucket and
\* full nitro, leaves the total as it was and dispatches no event
C10_RestartResets ==
    (AnimateFrame /\ "r" \in keys) =>
        /\ car.posX = initialPositionX /\ car.posZ = initialPositionZ
        /\ car.rotY = initialRotation
        /\ car.velocity = 0
        /\ car.vvX = 0 /\ car.vvY = 0 /\ car.vvZ = 0
        /\ ~car.isDrifting /\ car.driftDuration = 0 /\ car.driftIntensity = 0
        /\ ~car.isCollided /\ car.collisionTimer = 0
        /\ car.activeDriftPoints = 0
        /\ car.currentNitro = nitroAmount
        /\ car.totalScore = last.pre.totalScore
        /\ last.events = <<>>

\* a restart of a crashed car whose recovery timer was running, away from the
\* spawn point and with nitro spent
C10_Witness ==
    /\ AnimateFrame /\ "r" \in keys
    /\ last.pre.isCollided /\ last.pre.collisionTimer > 0
    /\ last.pre.posZ # initialPositionZ
    /\ last.pre.currentNitro < nitroAmount

\* a restart in the middle of a drift with points in the bucket
C10_DriftWitness ==
    /\ AnimateFrame /\ "r" \in keys
    /\ last.pre.isDrifting /\ last.pre.activeDriftPoints > 0

\* the first driftScore event of a session whose clock is running
FirstEventOfSession ==
    AnimateFrame /\ last.events # <<>> /\ gs.isTimerRunning /\ last.sessionCommits = 1

\* C11: startGame clears the cumulative total, so the total carried by the
\* first driftScore event of a session equals that drift's own points.
C11_FirstEventCarriesOwnPoints ==
    FirstEventOfSession => last.events[1].total = last.events[1].points

\* C12: when a new session is started after a game over, the vehicle is in
\* its spawn state: position and heading at the spawn values, speed, drift
\* state, crash state and pending bucket zero.
C12_NewSessionStartsAtSpawn ==
    (last.op = "startGame" /\ last.preGs.gameOver) =>
        /\ car.posX = initialPositionX /\ car.posZ = initialPositionZ
        /\ car.rotY = initialRotation
        /\ car.velocity = 0
        /\ ~car.isDrifting /\ car.driftDuration = 0
        /\ ~car.isCollided
        /\ car.activeDriftPoints = 0

\* C13: the finalScore of the gameOver event is the sum of the points of the
\* driftScore events committed in that session while its clock ran.
C13_FinalScoreIsSessionPoints ==
    \A i \in 1 .. Len(last.gameOver) :
        last.gameOver[i].finalScore = last.sessionPoints

\* C14: timeRemaining stays within [0, gameTimeLimit]; updateTimer changes it
\* only while the clock runs and only downwards, and changes nothing on a
\* stopped clock; only the start of a session raises timeRemaining.
C14_ClockWithinLimits ==
    /\ 0 <= gs.timeRemaining /\ gs.timeRemaining <= gameTimeLimit
    /\ AnimateFrame =>
          IF last.preGs.isTimerRunning
            THEN gs.timeRemaining <= last.preGs.timeRemaining
            ELSE gs = last.preGs
    /\ last.op \notin {"init", "startGame"} =>
          gs.timeRemaining <= last.preGs.timeRemaining

\* the countdown of the second session ends in a frame longer than the time left
C14_Witness ==
    /\ AnimateFrame /\ session > 1
    /\ last.preGs.isTimerRunning
    /\ last.preGs.timeRemaining < last.dt
    /\ gs.timeRemaining = 0

\* the frame in which the countdown reaches 0
TimeUpFrame == AnimateFrame /\ TimeUp(last.preGs, last.dt)

C15_State ==
    /\ over.dispatched + over.pending = over.zeros
    /\ Len(last.gameOver) <= 1
    /\ TimeUpFrame =>
          /\ ~gs.isTimerRunning /\ gs.timeRemaining = 0 /\ gs.gameOver
          /\ Len(last.gameOver) = IF gs.leaderboardService THEN 0 ELSE 1
    /\ (AnimateFrame /\ ~TimeUpFrame) => last.gameOver = <<>>
    /\ last.op = "init" => ~gs.isTimerRunning
    /\ ~resetScore(gs).isTimerRunning

C15_Step ==
    /\ (~gs.isTimerRunning /\ gs'.isTimerRunning) => last'.op = "startGame"
    /\ (~gs.isTimerRunning /\ last'.op = "animate") => (over' = over /\ gs' = gs)
    /\ over'.dispatched <= over.dispatched + 1

\* C15: each time the countdown reaches 0 the clock is stopped at 0 with
\* gameOver set and exactly one gameOver event is dispatched, at once without
\* a leaderboard service and when the refresh resolves or rejects with one;
\* later frames dispatch nothing and the clock stays stopped until startGame.
\* The clock is created stopped and resetScore leaves it stopped.
C15_GameOverOnce ==
    /\ []C15_State
    /\ [][C15_Step]_vars
    /\ \A n \in 1 .. MaxSessions : (over.zeros = n) ~> (over.dispatched = n)

\* a frame on the stopped clock after the second gameOver event, which waited
\* for the refresh
C15_Witness ==
    /\ AnimateFrame /\ ~last.preGs.isTimerRunning
    /\ gs.leaderboardService
    /\ over.zeros > 1 /\ over.dispatched = over.zeros

\* the car when Car.update evaluates the drift: after nitro, speed and steering
AtDriftCheck == UpdateControls(last.pre, last.dt, keys)

\* a frame in which Car.update runs past the restart and crash branches
DrivenFrame == PlainFrame /\ ~last.pre.isCollided

\* C16: at the end of a frame the car drifts only if the drift control was
\* held in that frame and |speed| exceeded driftInitiationSpeed when the drift
\* was evaluated; holding the drift control at speed 0 does not start a drift;
\* a drift ends in the frame where |speed| no longer exceeds the threshold.
C16_DriftNeedsInputAndSpeed ==
    /\ (AnimateFrame /\ car.isDrifting) =>
          /\ "space" \in keys
          /\ DrivenFrame
          /\ Abs(AtDriftCheck.velocity) > driftInitiationSpeed
    /\ (DrivenFrame /\ "space" \in keys
           /\ (AtDriftCheck.velocity = 0 \/ (last.pre.velocity = 0 /\ ~Throttle(keys))))
          => ~car.isDrifting
    /\ (DrivenFrame /\ last.pre.isDrifting
           /\ Abs(AtDriftCheck.velocity) <= driftInitiationSpeed) => ~car.isDrifting

\* a drift that ends with the drift control still held, the speed having
\* fallen to the threshold or below
C16_Witness ==
    /\ DrivenFrame /\ last.pre.isDrifting /\ "space" \in keys
    /\ Abs(AtDriftCheck.velocity) <= driftInitiationSpeed
    /\ ~car.isDrifting

\* C17: the drift duration is 0 at the end of the frame in which the drift
\* starts, does not decrease from frame to frame while the drift goes on, and
\* never exceeds maxDriftDuration.
C17_DriftDurationGrowsToCap ==
    /\ (AnimateFrame /\ ~last.pre.isDrifting /\ car.isDrifting) => car.driftDuration = 0
    /\ (AnimateFrame /\ last.pre.isDrifting /\ car.isDrifting) =>
          car.driftDuration >= last.pre.driftDuration
    /\ car.driftDuration <= maxDriftDuration

\* a frame of a drift whose duration has reached the cap
C17_Witness ==
    /\ AnimateFrame /\ last.pre.isDrifting /\ car.isDrifting
    /\ last.pre.driftDuration = maxDriftDuration
    /\ car.driftDuration = maxDriftDuration

\* nitro requested at the start of the frame with speed > 0 and charge > 0
NitroRequested ==
    "shift" \in keys /\ last.pre.velocity > 0 /\ last.pre.currentNitro > 0

\* C18: the nitro charge strictly decreases in every frame in which nitro is
\* requested while speed > 0 and charge > 0, and in a frame without a drift
\* commit the charge does not go up.
C18_NitroDownExceptCommit ==
    /\ (AnimateFrame /\ NitroRequested) => car.currentNitro < last.pre.currentNitro
    /\ (AnimateFrame /\ last.events = <<>>) => car.currentNitro <= last.pre.currentNitro

\* C18, amended: in a frame that Car.update processes normally (no restart
\* request, car not crashed at its start) and that commits no drift, the charge
\* strictly decreases when nitro is requested with speed > 0 and charge > 0;
\* in a frame without restart request and without drift commit the charge does
\* not go up; a restart frame refills the charge to nitroAmount.
C18_NitroDownExceptCommitOrRestart ==
    /\ (DrivenFrame /\ NitroRequested /\ last.events = <<>>) =>
          car.currentNitro < last.pre.currentNitro
    /\ (PlainFrame /\ last.events = <<>>) => car.currentNitro <= last.pre.currentNitro
    /\ (AnimateFrame /\ "r" \in keys) => car.currentNitro = nitroAmount

\* a frame in which the requested nitro used up charge
C18_Witness ==
    /\ DrivenFrame /\ NitroRequested /\ last.events = <<>>
    /\ car.currentNitro < last.pre.currentNitro
    /\ car.isNitroActive

\* a frame that commits a drift
CommitFrame == AnimateFrame /\ last.events # <<>>

\* C19: a drift commit with P = floor(bucket) raises the total by exactly P
\* and sets the nitro charge to min(100, charge before the commit + P *
\* nitroRecoveryFromDrift); P is the floor of the sum of the points accrued
\* frame by frame since the drift began.
C19_CommitAddsFlooredBucket ==
    CommitFrame =>
        \E P \in { Floor(last.pre.activeDriftPoints) } :
            /\ last.events[1].points = P
            /\ P = Floor(last.accrued)
            /\ last.updated.totalScore = last.pre.totalScore + P
            /\ last.events[1].total = last.updated.totalScore
            /\ last.updated.currentNitro =
                   Min(nitroAmount,
                       AtDriftCheck.currentNitro + P * nitroRecoveryFromDrift * ONE)
            /\ last.updated.activeDriftPoints = 0

\* a commit of at least one point after nitro was used, the recovery reaching
\* past the full charge
C19_Witness ==
    /\ CommitFrame
    /\ last.events[1].points > 0
    /\ AtDriftCheck.currentNitro < nitroAmount
    /\ AtDriftCheck.currentNitro
          + last.events[1].points * nitroRecoveryFromDrift * ONE > nitroAmount
    /\ car.currentNitro = nitroAmount

\* C20: however concurrent submitScore calls interleave, the leaderboard
\* table never holds more than one row with the same player name.
C20_OneRowPerName ==
    \A i, j \in 1 .. Len(table) :
        table[i].player_name = table[j].player_name => i = j

\* every submitScore call made has returned
AllSubmitted == clients # <<>> /\ \A i \in 1 .. Len(clients) : clients[i].pc = "done"

\* the highest score submitted under a name
HighestSubmitted(name) ==
    CHOOSE m \in { clients[i].score : i \in { n \in 1 .. Len(clients) : clients[n].playerName = name } } :
        \A i \in 1 .. Len(clients) : clients[i].playerName = name => clients[i].score <= m

\* C21: however concurrent submitScore calls under one name interleave, the
\* score stored for the name never decreases, and once all calls have returned
\* it is the highest score submitted (the table being empty before them).
C21_StoredScoreIsHighest ==
    /\ [][\A j \in 1 .. Len(table) : table'[j].score >= table[j].score]_vars
    /\ [](AllSubmitted =>
            \A j \in 1 .. Len(table) :
                table[j].score = HighestSubmitted(table[j].player_name))

\* the call made last has returned
LastCall == clients[Len(clients)]

\* C22: a submitScore call that runs alone inserts exactly one row when the
\* name is absent, overwrites the row's score when the score is strictly
\* greater than the stored one, leaves the table unchanged when it is less or
\* equal, and returns true in all three cases.
C22_AloneUpserts ==
    (clients # <<>> /\ LastCall.pc = "done") =>
        /\ LastCall.returned
        /\ IF RowsOf(LastCall.before, LastCall.playerName) = {}
             THEN table = Append(LastCall.before,
                                 [player_name |-> LastCall.playerName,
                                  score |-> LastCall.score])
             ELSE \A j \in RowsOf(LastCall.before, LastCall.playerName) :
                    table = IF LastCall.score > LastCall.before[j].score
                              THEN [LastCall.before EXCEPT ![j].score = LastCall.score]
                              ELSE LastCall.before

\* a call that overwrote a lower score after one that left a higher score alone
C22_Witness ==
    /\ Len(clients) > 2 /\ LastCall.pc = "done"
    /\ \E j \in RowsOf(LastCall.before, LastCall.playerName) :
         /\ LastCall.score > LastCall.before[j].score
         /\ table[j].score = LastCall.score
    /\ \E j \in RowsOf(clients[2].before, clients[2].playerName) :
         clients[2].score <= clients[2].before[j].score

\* initialize has returned
Initialized == fetcher.pc = "done"

\* C23: a failing fetch is retried: fetchLeaderboardWithRetries makes at most
\* maxRetries attempts, goes on to the next attempt after a failed one, and
\* when every attempt has failed it throws, so that initialize returns false.
C23_FailedFetchRetried ==
    /\ fetcher.attempts <= fetcher.maxRetries
    /\ (Initialized /\ fetcher.returned) => fetcher.failures < fetcher.attempts
    /\ (Initialized /\ fetcher.failures = fetcher.attempts) =>
          (~fetcher.returned /\ fetcher.attempts = fetcher.maxRetries)

\* C24: at the end of every frame |speed| <= maxSpeed when nitro is not
\* active and |speed| <= 1.4 * maxSpeed while it is active.
C24_CeilingFollowsNitro ==
    AnimateFrame =>
        IF car.isNitroActive
          THEN 10 * Abs(car.velocity) <= 14 * maxSpeed
          ELSE Abs(car.velocity) <= maxSpeed

\* C25: the score update of a frame comes after the frame's collision
\* response: in the frame in which a strike crashes the car, Car.update, which
\* runs before the collision query, has neither accrued drift points to the
\* bucket nor committed a drift.
C25_ScoreAfterCollisionResponse ==
    StrikeFrame =>
        /\ last.events = <<>>
        /\ (last.pre.isDrifting /\ last.updated.isDrifting) =>
              last.updated.activeDriftPoints = last.pre.activeDriftPoints

\* a frame that Game.animate skipped
SkippedFrame == last.op = "skip"

\* C26: a frame whose frame time exceeds 0.2 s is skipped entirely: session
\* clock, car and scores are as before it; every frame time handed to
\* updateTimer and Car.update lies in [0, 0.2 s]; the timestamp kept is that
\* of the latest callback, skipped or not, so the next frame time is measured
\* from it.
C26_LongFramesSkipped ==
    /\ lastTime = clock
    /\ SkippedFrame =>
          /\ last.dt > maxFrameTime
          /\ car = last.pre /\ gs = last.preGs
          /\ last.events = <<>> /\ last.gameOver = <<>>
    /\ AnimateFrame => (0 <= last.dt /\ last.dt <= maxFrameTime)

\* a processed frame right after a skipped one, the clock running
C26_Witness ==
    /\ AnimateFrame /\ gs.isTimerRunning
    /\ gs.timeRemaining = last.preGs.timeRemaining - last.dt
    /\ frame > 2
    /\ clock > frame * maxFrameTime
    /\ car.velocity > 0

\* the multiplier Car.update computes in a frame that continues a drift, from
\* the duration the drift had when the frame began
MultiplierFor(duration) == Min(5000, ONE + Div(duration, 2))

\* C27: while drifting the drift multiplier is min(5.0, 1 + duration/2) and
\* lies in [1, 5]; in a held drift the duration stays at maxDriftDuration
\* once it has reached it, and the multiplier of a drift whose duration has
\* reached maxDriftDuration is 5.0.
C27_MultiplierSaturatesAtFive ==
    /\ (AnimateFrame /\ last.pre.isDrifting /\ car.isDrifting) =>
          car.driftPointsMultiplier = MultiplierFor(last.pre.driftDuration)
    /\ car.isDrifting =>
          (ONE <= car.driftPointsMultiplier /\ car.driftPointsMultiplier <= 5000)
    /\ (AnimateFrame /\ last.pre.isDrifting /\ car.isDrifting
          /\ last.pre.driftDuration = maxDriftDuration) =>
          /\ car.driftDuration = maxDriftDuration
          /\ car.driftPointsMultiplier = 5000

\* the angle between the velocity vector and the heading's forward vector is
\* at most 0.35 pi: velocityDir . forward >= cos(0.35 pi)
WithinClamp(c) ==
    LET len == Len3(c.vvX, c.vvY, c.vvZ) IN
    len > 0 => c.vvX * ForwardX(c.rotY) + c.vvZ * ForwardZ(c.rotY) >= 454 * len

HardSteer == "space" \in keys /\ ("left" \in keys \/ "right" \in keys)

\* C28: at the end of every frame of a drift with the drift control and full
\* steering held, the angle between the velocity vector and the heading's
\* forward vector is at most 0.35 pi; and a drift goes on in every frame in
\* which the drift control is held.
C28_DriftAngleClamped ==
    /\ (AnimateFrame /\ HardSteer /\ car.isDrifting) => WithinClamp(car)
    /\ (AnimateFrame /\ last.pre.isDrifting /\ "space" \in keys) => car.isDrifting

ComboCall == last.op = "updateDriftMultiplier"

\* C29: the combo multiplier lies in [1, 8]; a drifting call of
\* updateDriftMultiplier leaves the chain timer at 0 and the multiplier no
\* lower than before; once the time of the non-drifting calls since the
\* latest drifting call has reached driftChainTimeout the multiplier is 1,
\* and a non-drifting call that leaves that time below the timeout leaves
\* the multiplier as it was.
C29_ComboMultiplier ==
    /\ ONE <= gs.driftMultiplier /\ gs.driftMultiplier <= maxDriftMultiplier
    /\ (ComboCall /\ last.drifting) =>
          /\ gs.driftChainTimer = 0
          /\ gs.driftMultiplier >= last.preGs.driftMultiplier
    /\ last.idle >= driftChainTimeout => gs.driftMultiplier = ONE
    /\ (ComboCall /\ ~last.drifting /\ last.idle < driftChainTimeout) =>
          gs.driftMultiplier = last.preGs.driftMultiplier

\* a raised multiplier falls to 1 in the non-drifting call with which the
\* time since the latest drifting call is exactly the timeout
C29_Witness ==
    /\ ComboCall /\ ~last.drifting /\ last.dt > 0
    /\ last.idle = driftChainTimeout
    /\ last.preGs.driftMultiplier > ONE
    /\ gs.driftMultiplier = ONE

ScoreAdded == last.op = "addScore"

\* C30: highScore is never below score and never decreases; an addScore
\* raises highScore exactly when the new score exceeds it, the stored high
\* score equals highScore after every addScore that raised it, and an
\* addScore that did not raise it leaves the stored one alone.
C30_HighScoreKept ==
    /\ [][gs'.highScore >= gs.highScore]_vars
    /\ [](gs.highScore >= gs.score)
    /\ [](ScoreAdded =>
            /\ (gs.highScore > last.preGs.highScore) = (gs.score > last.preGs.highScore)
            /\ gs.highScore > last.preGs.highScore =>
                  gs.savedHighScore = << gs.highScore >>
            /\ gs.highScore = last.preGs.highScore =>
                  gs.savedHighScore = last.preGs.savedHighScore)

\* an addScore that beats a high score loaded from the storage and replaces
\* the stored one
C30_Witness ==
    /\ ScoreAdded
    /\ last.preGs.highScore > 0
    /\ last.preGs.savedHighScore # << last.preGs.highScore >>
    /\ gs.highScore > last.preGs.highScore
    /\ gs.savedHighScore = << gs.highScore >>

\* a frame of Car.update at whose end a spin is over
SpinEnded == AnimateFrame /\ last.pre.isSpinning /\ ~car.isSpinning

\* C31: a frame dispatches at most one spinout event, and dispatches one
\* exactly when spinning goes from true to false in it after a spin of at
\* least 0.5 s, with score floor(2.5 x the spin score accumulated); spinTime
\* and spinScore are 0 at the end of every frame in which the car is not
\* spinning.
C31_SpinoutBonusOncePerSpin ==
    /\ AnimateFrame => Len(last.spins) <= 1
    /\ (AnimateFrame /\ last.spins # <<>>) =>
          /\ SpinEnded
          /\ last.pre.spinTime >= minSpinTime
          /\ last.spins[1].score = Floor(Div(last.pre.spinScore * 25, 10))
    /\ (SpinEnded /\ last.pre.spinTime >= minSpinTime) => last.spins # <<>>
    /\ (AnimateFrame /\ ~car.isSpinning) => (car.spinTime = 0 /\ car.spinScore = 0)

\* C32: no frame takes the speed from positive to negative or from negative
\* to positive, neither in Car.update nor after the collision check: the
\* sign changes only from a speed of exactly 0.
C32_NoSignReversalInFrame ==
    AnimateFrame =>
        /\ ~(last.pre.velocity > 0 /\ last.updated.velocity < 0)
        /\ ~(last.pre.velocity < 0 /\ last.updated.velocity > 0)
        /\ ~(last.pre.velocity > 0 /\ car.velocity < 0)
        /\ ~(last.pre.velocity < 0 /\ car.velocity > 0)

\* throttle against a reverse motion that it would overshoot: the frame ends
\* at 0 exactly
C32_Witness ==
    /\ AnimateFrame /\ Throttle(keys) /\ "r" \notin keys /\ ~last.pre.isCollided
    /\ last.pre.velocity < 0
    /\ last.pre.velocity + Div(brakeForce * 5 * last.dt, 10) > 0
    /\ car.velocity = 0

\* C33: a crashed car is never drifting.
C33_CrashedNotDrifting == car.isCollided => ~car.isDrifting

\* a strike on a car that Car.update has left drifting
C33_Witness ==
    /\ AnimateFrame /\ last.struck
    /\ last.updated.isDrifting /\ ~last.updated.isCollided
    /\ car.isCollided /\ ~car.isDrifting

\* a frame that restarted the car
RestartFrame == AnimateFrame /\ "r" \in keys

\* C34: the spin bookkeeping is cleared when the car crashes or is restarted,
\* and no spinout event is dispatched by a frame on a crashed car (the revive
\* frame among them) nor by the first frame of normal driving after a restart
\* or a recovery, which begins at rest.
C34_NoSpinBonusAfterCrashOrRestart ==
    /\ (RestartFrame \/ car.isCollided) =>
          (~car.isSpinning /\ car.spinTime = 0 /\ car.spinScore = 0)
    /\ (AnimateFrame /\ (last.pre.isCollided \/ last.pre.velocity = 0)) =>
          last.spins = <<>>

\* a frame with the brake held, and nothing else, on a car that is not
\* crashed
BrakeFrame == AnimateFrame /\ keys = {"down"} /\ ~last.pre.isCollided

\* the brake is held, and nothing else, on a car that is neither crashed nor
\* drifting
BrakeHeld == isRunning /\ keys = {"down"} /\ ~car.isCollided /\ ~car.isDrifting

\* a car moving forward with the brake held, in the first half of the drive
BrakingBegun == BrakeHeld /\ car.velocity > 0 /\ frame + frame <= MaxBrakeFrames

Wrote(i) ==
    \/ clients[i].existing # 0
    \/ RowsOf(clients[i].before, clients[i].playerName) = {}

\* C36: once a submitScore that has written has returned true, the cached
\* topScores come from a select sent to the backend after that write,
\* whatever other fetchLeaderboard calls were made on the service meanwhile.
C36_CacheRefreshedAfterSubmit ==
    \A i \in 1 .. Len(clients) :
        (clients[i].pc = "done" /\ clients[i].returned /\ Wrote(i)) =>
            i \in service.fresh

\* C37: at most one select of fetchLeaderboard is in flight; a call made
\* while one is in flight returns the cached topScores, leaves them as they
\* are and sends nothing; and isLoading is false whenever no fetch is in
\* flight, whichever way the last one ended.
C37_OneFetchInFlight ==
    /\ Len(service.fetches) <= 1
    /\ (service.seen.op = "call" /\ ~service.seen.queried) =>
          /\ Len(service.fetches) = 1
          /\ service.seen.result = service.seen.cached
          /\ service.topScores = service.seen.cached
    /\ (service.fetches = <<>>) => ~service.isLoading

\* a fetchLeaderboard call has just returned the cache because another fetch
\* was in flight, after an earlier refresh had run
C37_Witness ==
    /\ service.seen.op = "call" /\ service.seen.outcome = "cached"
    /\ service.isLoading /\ Len(service.fetches) = 1
    /\ service.refreshes > 1

=============================================================================
